---------------------------- MODULE Spec2Model ----------------------------
(***************************************************************************)
(* A model of src/src/TouchHandler.ts: the static state of TouchHandler    *)
(* (pointer-id maps, multi-touch simulation state, dirty place) and its    *)
(* two public entry points, formatTouchEvent and buildTouchEvent.          *)
(*                                                                         *)
(* JavaScript numbers are modelled as exact rationals <<n, d>> (d > 0, in  *)
(* lowest terms), so that halves (box centers, letterbox margins) and      *)
(* scaled coordinates keep their value.                                    *)
(***************************************************************************)
EXTENDS Integers, Sequences, FiniteSets, TLC

VARIABLES
    idToPointerMap,    \* static idToPointerMap: raw identifier -> pointer id
    pointerToIdMap,    \* static pointerToIdMap: pointer id -> raw identifier
    multiTouchActive,  \* static multiTouchActive
    multiTouchCenter,  \* static multiTouchCenter (None = undefined)
    multiTouchShift,   \* static multiTouchShift
    dirtyPlace,        \* static dirtyPlace: <<>> or <<topLeft, bottomRight>>
    last,              \* observation: the last public call, what it read and returned
    heldId,            \* observation: raw identifier -> id its first acquire since its last release returned
    lastId,            \* observation: raw identifier -> id the last call for it returned
    startPoint,        \* observation: mapped point of the event that started the running simulation with shift held
    simulatedDown      \* observation: the last event buildTouchEvent returned for pointerId 1 that was not a move was a down

vars == <<idToPointerMap, pointerToIdMap, multiTouchActive, multiTouchCenter,
          multiTouchShift, dirtyPlace, last, heldId, lastId, startPoint, simulatedDown>>

\* null / undefined where an object is expected, and where a table entry is
None == <<>>
Undefined == "undefined"
\* what a public entry point returns: null, or a list of TouchControlEvent
Null == [null |-> TRUE, events |-> <<>>]
Events(events) == [null |-> FALSE, events |-> events]

(***************************************************************************)
(* Bounds of the model.                                                    *)
(***************************************************************************)
MaxRawId == 2       \* raw touch identifiers are 0..MaxRawId
MaxTouches == 2     \* changedTouches of a batch holds at most this many contacts
MaxCoord == 1       \* clientX, clientY of a mouse event are 0..MaxCoord

(***************************************************************************)
(* Exact rational arithmetic for JavaScript numbers.                       *)
(***************************************************************************)
Abs(n) == IF n < 0 THEN -n ELSE n

RECURSIVE Gcd(_, _)
Gcd(a, b) == IF b = 0 THEN a ELSE Gcd(b, a % b)

\* n / d in lowest terms with a positive denominator (d # 0)
Rat(n, d) ==
    LET s == IF d < 0 THEN -1 ELSE 1
        g == Gcd(Abs(n), Abs(d))
    IN  <<(s * n) \div g, (s * d) \div g>>

Num(n) == <<n, 1>>
RAdd(a, b) == Rat(a[1] * b[2] + b[1] * a[2], a[2] * b[2])
RSub(a, b) == Rat(a[1] * b[2] - b[1] * a[2], a[2] * b[2])
RMul(a, b) == Rat(a[1] * b[1], a[2] * b[2])
RDiv(a, b) == Rat(a[1] * b[2], a[2] * b[1])
RLt(a, b) == a[1] * b[2] < b[1] * a[2]
RLe(a, b) == a[1] * b[2] <= b[1] * a[2]
RMin(a, b) == IF RLe(a, b) THEN a ELSE b
RMax(a, b) == IF RLe(a, b) THEN b ELSE a
\* Math.ceil
Ceil(a) == -((-a[1]) \div a[2])
\* Math.round: the nearest integer, halves rounded up
Round(a) == (2 * a[1] + a[2]) \div (2 * a[2])

Point(x, y) == [x |-> x, y |-> y]
Size(w, h) == [width |-> w, height |-> h]
Position(point, screenSize) == [point |-> point, screenSize |-> screenSize]
TouchControlEvent(action, pointerId, position, pressure, buttons) ==
    [action |-> action, pointerId |-> pointerId, position |-> position,
     pressure |-> pressure, buttons |-> buttons]

(***************************************************************************)
(* Static tables.                                                          *)
(***************************************************************************)
TouchTypes == {"touchstart", "touchmove", "touchend", "touchcancel"}
MouseTypes == {"mousedown", "mousemove", "mouseup"}

\* EVENT_ACTION_MAP[type], undefined for a type that is not a key
EVENT_ACTION_MAP(type) ==
    CASE type = "touchstart" -> "ACTION_DOWN"
      [] type = "touchend" -> "ACTION_UP"
      [] type = "touchmove" -> "ACTION_MOVE"
      [] type = "touchcancel" -> "ACTION_UP"
      [] type = "mousedown" -> "ACTION_DOWN"
      [] type = "mousemove" -> "ACTION_MOVE"
      [] type = "mouseup" -> "ACTION_UP"
      [] OTHER -> Undefined

\* BUTTONS_MAP[button], undefined for a button that is not a key
BUTTONS_MAP(button) ==
    CASE button = 0 -> "17"
      [] button = 1 -> "BUTTON_TERTIARY"
      [] button = 2 -> "26"
      [] OTHER -> Undefined

(***************************************************************************)
(* Maps (JavaScript Map) as functions on their key set.                    *)
(***************************************************************************)
EmptyMap == <<>>
MapHas(m, k) == k \in DOMAIN m
MapSet(m, k, v) == [x \in (DOMAIN m) \cup {k} |-> IF x = k THEN v ELSE m[x]]
MapDelete(m, k) == [x \in (DOMAIN m) \ {k} |-> m[x]]

(***************************************************************************)
(* getPointerId                                                            *)
(***************************************************************************)
\* faulty variant: every type but touchstart taken for a termination type
IsTerminalOrMove(type) == type # "touchstart"

IsTerminal(type) == type = "touchend" \/ type = "touchcancel"

\* the loop of lines 64-67: count up from pointerId while the map has the key
RECURSIVE LowestFree(_, _)
LowestFree(m, pointerId) ==
    IF MapHas(m, pointerId) THEN LowestFree(m, pointerId + 1) ELSE pointerId

\* the map the allocation loop searches for a free pointer id
AllocSearchMap(i2p, p2i) == i2p

\* the maps after a call on a mapped identifier
ReleaseMaps(type, identifier, i2p, p2i) ==
    IF IsTerminal(type)
    THEN [i2p |-> MapDelete(i2p, identifier), p2i |-> MapDelete(p2i, i2p[identifier])]
    ELSE [i2p |-> i2p, p2i |-> p2i]

\* getPointerId(type, identifier) on maps i2p, p2i: the id returned and the maps left
GetPointerId(type, identifier, i2p, p2i) ==
    IF MapHas(i2p, identifier)
    THEN LET r == ReleaseMaps(type, identifier, i2p, p2i)
         IN  [pointerId |-> i2p[identifier], i2p |-> r.i2p, p2i |-> r.p2i]
    ELSE LET pointerId == LowestFree(AllocSearchMap(i2p, p2i), 0)
         IN  [pointerId |-> pointerId,
              i2p |-> MapSet(i2p, identifier, pointerId),
              p2i |-> MapSet(p2i, pointerId, identifier)]

(***************************************************************************)
(* calculateCoordinates                                                    *)
(*   e          [clientX, clientY, type, target, button]                   *)
(*   target     [clientWidth, clientHeight, offsetLeft, offsetTop, ctx2d,  *)
(*               lineWidth]                                                *)
(*   screenInfo None, or [videoSize |-> Size]                              *)
(*   html       [scrollTop, scrollLeft] of the document's html element     *)
(***************************************************************************)
eps == 100000

\* lines 84-85
TouchX(e, html) == Num((e.clientX - e.target.offsetLeft) + html.scrollLeft)
TouchY(e, html) == Num((e.clientY - e.target.offsetTop) + html.scrollTop)

\* lines 87-89
ShouldBe(width, height) == Round(RMul(Num(eps), Rat(width, height)))
HaveNow(clientWidth, clientHeight) == Round(Rat(eps * clientWidth, clientHeight))

\* faulty variant: only the far side of the picture is tested
OutsidePictureFarSideOnly(touch, margin, real) ==
    RLt(RAdd(margin, Num(real)), touch)

\* line 93 (and 101): the touch lies outside the picture
OutsidePicture(touch, margin, real) ==
    RLt(touch, margin) \/ RLt(RAdd(margin, Num(real)), touch)

CalculateCoordinates(e, screenInfo, html) ==
    LET action == EVENT_ACTION_MAP(e.type) IN
    IF action = Undefined \/ screenInfo = None THEN None
    ELSE
    LET width == screenInfo.videoSize.width
        height == screenInfo.videoSize.height
        clientWidth == e.target.clientWidth
        clientHeight == e.target.clientHeight
        touchX == TouchX(e, html)
        touchY == TouchY(e, html)
        ratio == Rat(width, height)
        shouldBe == ShouldBe(width, height)
        haveNow == HaveNow(clientWidth, clientHeight)
        realHeight == Ceil(RDiv(Num(clientWidth), ratio))
        top == RDiv(Num(clientHeight - realHeight), Num(2))
        realWidth == Ceil(RMul(Num(clientHeight), ratio))
        left == RDiv(Num(clientWidth - realWidth), Num(2))
        Result(tX, tY, cW, cH) ==
            [client |-> [width |-> cW, height |-> cH],
             touch |-> [action |-> action,
                        position |-> Position(
                            Point(RDiv(RMul(tX, Num(width)), Num(cW)),
                                  RDiv(RMul(tY, Num(height)), Num(cH))),
                            Size(width, height)),
                        buttons |-> BUTTONS_MAP(e.button)]]
    IN  IF shouldBe > haveNow
        THEN IF OutsidePicture(touchY, top, realHeight) THEN None
             ELSE Result(touchX, RSub(touchY, top), clientWidth, realHeight)
        ELSE IF shouldBe < haveNow
        THEN IF OutsidePicture(touchX, left, realWidth) THEN None
             ELSE Result(RSub(touchX, left), touchY, realWidth, clientHeight)
        ELSE Result(touchX, touchY, clientWidth, clientHeight)

(***************************************************************************)
(* The overlay: updateDirty, drawCircle, clearCanvas.  The canvas itself   *)
(* is not modelled; the rectangles passed to ctx.clearRect are recorded.   *)
(***************************************************************************)
CURSOR_RADIUS == 10
CENTER_RADIUS == 5

\* faulty variant: the new box replaces the tracked one
UpdateDirtyReplace(dp, topLeft, bottomRight) == <<topLeft, bottomRight>>

\* updateDirty(topLeft, bottomRight) on dirtyPlace dp: the dirtyPlace left
UpdateDirty(dp, topLeft, bottomRight) ==
    IF Len(dp) = 0 THEN <<topLeft, bottomRight>>
    ELSE <<Point(RMin(dp[1].x, topLeft.x), RMin(dp[1].y, topLeft.y)),
           Point(RMax(dp[2].x, bottomRight.x), RMax(dp[2].y, bottomRight.y))>>

\* drawCircle(ctx, point, radius) on dirtyPlace dp, l = ctx.lineWidth
DrawCircle(dp, l, point, radius) ==
    UpdateDirty(dp,
        Point(RSub(RSub(point.x, Num(radius)), Num(l)), RSub(RSub(point.y, Num(radius)), Num(l))),
        Point(RAdd(RAdd(point.x, Num(radius)), Num(l)), RAdd(RAdd(point.y, Num(radius)), Num(l))))

\* the dirtyPlace clearCanvas leaves
DirtyAfterClear(dp) == dp

\* clearCanvas(target) on dirtyPlace dp: the rectangles cleared and the dirtyPlace left
ClearCanvas(target, dp) ==
    IF target.ctx2d /\ Len(dp) # 0
    THEN LET x == RMax(dp[1].x, Num(0))
             y == RMax(dp[1].y, Num(0))
             w == RMin(Num(target.clientWidth), RSub(dp[2].x, x))
             h == RMin(Num(target.clientHeight), RSub(dp[2].y, y))
         IN  [cleared |-> <<[x |-> x, y |-> y, w |-> w, h |-> h]>>,
              dirtyPlace |-> DirtyAfterClear(dp)]
    ELSE [cleared |-> <<>>, dirtyPlace |-> dp]

(***************************************************************************)
(* getTouch                                                                *)
(*   e   a mouse event: the fields above and ctrlKey, shiftKey             *)
(*   st  [active, center, shift, dirtyPlace]: the static state read        *)
(* gives None (null), or the touches, the static state left and the        *)
(* rectangles cleared.                                                     *)
(***************************************************************************)
\* faulty variant: either modifier enables the simulation
SimulationEnabledByAnyModifier(e) == e.ctrlKey \/ e.shiftKey

\* line 133: the simulation is enabled for this event
SimulationEnabled(e) == e.ctrlKey

\* faulty variant: the center is chosen anew on every event
SimulationStartEveryEvent(e, st, client, point) ==
    IF e.shiftKey
    THEN [center |-> point, shift |-> TRUE]
    ELSE [center |-> Point(Rat(client.width, 2), Rat(client.height, 2)), shift |-> st.shift]

\* lines 144-151: center and shift flag after the start check
SimulationStart(e, st, client, point) ==
    IF ~st.active
    THEN IF e.shiftKey
         THEN [center |-> point, shift |-> TRUE]
         ELSE [center |-> Point(Rat(client.width, 2), Rat(client.height, 2)), shift |-> st.shift]
    ELSE [center |-> st.center, shift |-> st.shift]

\* faulty variant: the range check forgets the lower bounds
OppositeInRangeUpperOnly(oppoX, oppoY, width, height) ==
    RLe(oppoX, Num(width)) /\ RLe(oppoY, Num(height))

\* line 157
OppositeInRange(oppoX, oppoY, width, height) ==
    /\ RLe(oppoX, Num(width)) /\ RLe(Num(0), oppoX)
    /\ RLe(oppoY, Num(height)) /\ RLe(Num(0), oppoY)

\* faulty variant: the range check is applied to the client box's opposite too
OppositeRangeCheckedAlways(center, shift, client, point, screenSize) ==
    LET opposite ==
            IF shift /\ center # None
            THEN Point(RSub(RMul(Num(2), center.x), point.x),
                       RSub(RMul(Num(2), center.y), point.y))
            ELSE Point(RSub(Num(client.width), point.x), RSub(Num(client.height), point.y))
    IN  IF OppositeInRange(opposite.x, opposite.y, screenSize.width, screenSize.height)
        THEN opposite
        ELSE None

\* lines 153-162: the opposite point, None when there is none
Opposite(center, shift, client, point, screenSize) ==
    IF shift /\ center # None
    THEN LET oppoX == RSub(RMul(Num(2), center.x), point.x)
             oppoY == RSub(RMul(Num(2), center.y), point.y)
         IN  IF OppositeInRange(oppoX, oppoY, screenSize.width, screenSize.height)
             THEN Point(oppoX, oppoY)
             ELSE None
    ELSE Point(RSub(Num(client.width), point.x), RSub(Num(client.height), point.y))

\* faulty variant: the reset path forgets the shift flag
ResetPathKeepingShift(e, st, touchOnClient, touch, c) ==
    [touches |-> <<touch>>,
     st |-> [active |-> FALSE, center |-> None, shift |-> st.shift, dirtyPlace |-> c.dirtyPlace],
     cleared |-> c.cleared,
     mapped |-> touchOnClient]

\* lines 134-138 given what clearCanvas did (c)
ResetPath(e, st, touchOnClient, touch, c) ==
    [touches |-> <<touch>>,
     st |-> [active |-> FALSE, center |-> None, shift |-> FALSE, dirtyPlace |-> c.dirtyPlace],
     cleared |-> c.cleared,
     mapped |-> touchOnClient]

\* lines 163-170 given the opposite point
WithOpposite(st, touchOnClient, touch, s, opposite) ==
    [touches |->
        IF opposite # None
        THEN <<touch, [action |-> touch.action, buttons |-> touch.buttons,
                       position |-> Position(opposite, touch.position.screenSize)]>>
        ELSE <<touch>>,
     st |-> [active |-> TRUE, center |-> s.center, shift |-> s.shift,
             dirtyPlace |-> st.dirtyPlace],
     cleared |-> <<>>,
     mapped |-> touchOnClient]

\* lines 140-170 given the center and shift flag the start check left (s)
SimulatePath(st, touchOnClient, touch, s, client) ==
    WithOpposite(st, touchOnClient, touch, s,
                 Opposite(s.center, s.shift, client, touch.position.point,
                          touch.position.screenSize))

\* lines 131-170 given the touchOnClient calculateCoordinates gave
GetTouchMapped(e, st, touchOnClient, client, touch) ==
    IF ~SimulationEnabled(e)
    THEN ResetPath(e, st, touchOnClient, touch, ClearCanvas(e.target, st.dirtyPlace))
    ELSE SimulatePath(st, touchOnClient, touch,
                      SimulationStart(e, st, client, touch.position.point), client)

\* lines 128-131
GetTouchOf(e, st, touchOnClient) ==
    IF touchOnClient = None THEN None
    ELSE GetTouchMapped(e, st, touchOnClient, touchOnClient.client, touchOnClient.touch)

GetTouch(e, screenInfo, html, st) ==
    GetTouchOf(e, st, CalculateCoordinates(e, screenInfo, html))

(***************************************************************************)
(* The inputs the entry points are called with.                            *)
(***************************************************************************)
RawIds == 0..MaxRawId
Coords == 0..MaxCoord
Offsets == {0}
Scrolls == {0}
LineWidths == {1}
Forces == {1}
MouseButtons == {0}

\* element boxes: a small and a large square
Sizes == {Size(1, 1), Size(2, 2)}
\* video sizes: as the large box, wider than a square, taller than a square
VideoSizes == {Size(2, 2), Size(2, 1), Size(1, 2)}
ScreenInfos == {[videoSize |-> s] : s \in VideoSizes} \cup {None}
Htmls == [scrollTop : Scrolls, scrollLeft : Scrolls]
\* an element of the page; ctx2d: its getContext('2d') gives a context
Element(size, offsetLeft, offsetTop, ctx2d, lineWidth) ==
    [clientWidth |-> size.width, clientHeight |-> size.height, offsetLeft |-> offsetLeft,
     offsetTop |-> offsetTop, ctx2d |-> ctx2d, lineWidth |-> lineWidth]
\* elements that give no 2d context (nothing is drawn on them), and canvases
PlainElements == {Element(s, ol, ot, FALSE, 1) : s \in Sizes, ol \in Offsets, ot \in Offsets}
Canvases == {Element(s, ol, ot, TRUE, l) : s \in Sizes, ol \in Offsets, ot \in Offsets,
                                           l \in LineWidths}

\* a changed contact: its target is the listening element ("tag") or another one
\* at clientY 0 it lies in the margin above a wider video, at 1 in the picture
TouchesOf(ids) ==
    [identifier : ids, target : {"tag", "other"}, clientX : {0}, clientY : {0, 1},
     force : Forces]
\* changedTouches: up to n contacts with distinct identifiers among ids
TouchListsOf(ids, n) ==
    {l \in UNION {[1..k -> TouchesOf(ids)] : k \in 0..n} :
        \A i, j \in DOMAIN l : i # j => l[i].identifier # l[j].identifier}
\* one changed contact per event, of any raw identifier
SingleTouchLists == TouchListsOf(RawIds, 1)
\* batches of changed contacts of two raw identifiers
BatchTouchLists == TouchListsOf({0, 1}, MaxTouches)
\* the element the touch listeners are on, and the video sizes it shows
TouchElements == {Element(Size(2, 2), 0, 0, FALSE, 1)}
TouchScreenInfos == {[videoSize |-> Size(2, 1)], None}

\* no pointer id (in the observations)
NoId == 0 - 1

Init ==
    /\ idToPointerMap = EmptyMap
    /\ pointerToIdMap = EmptyMap
    /\ multiTouchActive = FALSE
    /\ multiTouchCenter = None
    /\ multiTouchShift = FALSE
    /\ dirtyPlace = <<>>
    /\ last = [op |-> "none"]
    /\ heldId = [r \in RawIds |-> NoId]
    /\ lastId = [r \in RawIds |-> NoId]
    /\ startPoint = None
    /\ simulatedDown = FALSE

(***************************************************************************)
(* formatTouchEvent                                                        *)
(***************************************************************************)
\* line 225: the contact is one of the listening element
TargetMatches(touch, tag) == touch.target = tag

\* the pointer ids the mapped raw identifiers have
IdsInUse(i2p) == {i2p[r] : r \in DOMAIN i2p}

\* lines 228-242 for a contact of the listening element: the events with the contact's
FormatItem(type, touch, target, screenInfo, html, pointerId, event, events) ==
    IF event # None
    THEN Append(events, TouchControlEvent(event.touch.action, pointerId, event.touch.position,
                                          touch.force * 255, event.touch.buttons))
    ELSE events

\* lines 223-242 given what getPointerId returned (g) and what calculateCoordinates
\* gives for the contact (event), on the accumulated acc = [i2p, p2i, events, calls]
FormatStep(type, touch, target, screenInfo, html, tag, acc, g, event) ==
    [i2p |-> g.i2p,
     p2i |-> g.p2i,
     events |-> IF TargetMatches(touch, tag)
                THEN FormatItem(type, touch, target, screenInfo, html, g.pointerId, event,
                                acc.events)
                ELSE acc.events,
     calls |-> Append(acc.calls,
                      [identifier |-> touch.identifier,
                       matched |-> touch.target = tag,
                       wasMapped |-> touch.identifier \in DOMAIN acc.i2p,
                       inUse |-> IdsInUse(acc.i2p),
                       pointerId |-> g.pointerId,
                       emitted |-> touch.target = tag /\ event # None])]

\* one turn of the loop of lines 222-243
FormatTouch(type, touch, target, screenInfo, html, tag, acc) ==
    FormatStep(type, touch, target, screenInfo, html, tag, acc,
               GetPointerId(type, touch.identifier, acc.i2p, acc.p2i),
               CalculateCoordinates([clientX |-> touch.clientX, clientY |-> touch.clientY,
                                     type |-> type, button |-> 0, target |-> target],
                                    screenInfo, html))

RECURSIVE FormatTouches(_, _, _, _, _, _, _, _)
FormatTouches(type, touches, i, target, screenInfo, html, tag, acc) ==
    IF i > Len(touches) THEN acc
    ELSE FormatTouches(type, touches, i + 1, target, screenInfo, html, tag,
                       FormatTouch(type, touches[i], target, screenInfo, html, tag, acc))

\* faulty variant: the list is returned also when it is empty
FormatResultAlwaysList(events) == Events(events)

\* lines 247-250
FormatResult(events) == IF Len(events) # 0 THEN Events(events) ELSE Null

\* formatTouchEvent(e, screenInfo, tag), e of one of the types with changedTouches one of
\* the lists and target one of the elements
FormatTouchEventOn(types, lists, elements, screenInfos, htmls, observed) ==
    \E type \in types, touches \in lists, target \in elements,
       screenInfo \in screenInfos, html \in htmls :
        \E f \in {FormatTouches(type, touches, 1, target, screenInfo, html, "tag",
                                [i2p |-> idToPointerMap, p2i |-> pointerToIdMap,
                                 events |-> <<>>, calls |-> <<>>])} :
            /\ idToPointerMap' = f.i2p
            /\ pointerToIdMap' = f.p2i
            /\ last' = IF observed
                        THEN [op |-> "formatTouchEvent", type |-> type, calls |-> f.calls,
                              result |-> FormatResult(f.events)]
                        ELSE [op |-> "formatTouchEvent",
                              reacquired |->
                                  /\ type \in {"touchstart", "touchmove"}
                                  /\ \E i \in DOMAIN f.calls : heldId[f.calls[i].identifier] # NoId]
            /\ heldId' = [r \in RawIds |->
                            IF \E i \in DOMAIN f.calls : f.calls[i].identifier = r
                            THEN IF type \in {"touchend", "touchcancel"} THEN NoId
                                 ELSE IF heldId[r] # NoId THEN heldId[r]
                                 ELSE f.calls[CHOOSE i \in DOMAIN f.calls :
                                                  f.calls[i].identifier = r].pointerId
                            ELSE heldId[r]]
            /\ lastId' = [r \in RawIds |->
                            IF \E i \in DOMAIN f.calls : f.calls[i].identifier = r
                            THEN f.calls[CHOOSE i \in DOMAIN f.calls :
                                             f.calls[i].identifier = r].pointerId
                            ELSE lastId[r]]
            /\ UNCHANGED <<multiTouchActive, multiTouchCenter, multiTouchShift, dirtyPlace,
                           startPoint, simulatedDown>>

\* an event of one changed contact, the call recorded in last
FormatTouchEvent ==
    FormatTouchEventOn(TouchTypes, SingleTouchLists, TouchElements, TouchScreenInfos, Htmls, TRUE)

\* the same, the call not recorded
FormatTouchEventUnobserved ==
    FormatTouchEventOn(TouchTypes, SingleTouchLists, TouchElements, TouchScreenInfos, Htmls, FALSE)

\* an event of a batch of changed contacts
FormatTouchBatch ==
    FormatTouchEventOn(TouchTypes, BatchTouchLists, TouchElements, TouchScreenInfos, Htmls, TRUE)

\* an event of one changed contact, in the order a browser sends them: touchstart for
\* a contact that is not down, the other types for a contact that is
FormatTouchEventInOrder ==
    \E type \in TouchTypes :
        FormatTouchEventOn({type},
                           {l \in SingleTouchLists :
                               \A i \in DOMAIN l :
                                   (type = "touchstart") <=> (heldId[l[i].identifier] = NoId)},
                           TouchElements, TouchScreenInfos, Htmls, TRUE)

(***************************************************************************)
(* buildTouchEvent                                                         *)
(***************************************************************************)
\* lines 263-269: a circle around every touch
RECURSIVE DrawTouches(_, _, _, _)
DrawTouches(dp, l, touches, i) ==
    IF i > Len(touches) THEN dp
    ELSE DrawTouches(DrawCircle(dp, l, touches[i].position.point, CURSOR_RADIUS), l, touches, i + 1)

\* lines 266-272 on the dirtyPlace d the circles of the touches left
DrawCenter(d, l, center) ==
    IF center # None THEN DrawCircle(d, l, center, CENTER_RADIUS) ELSE d

\* lines 262-272 given what clearCanvas did (c)
RedrawAfterClear(target, touches, center, c) ==
    [cleared |-> c.cleared,
     dirtyPlace |-> DrawCenter(DrawTouches(c.dirtyPlace, target.lineWidth, touches, 1),
                               target.lineWidth, center)]

\* lines 259-274 on the state st that getTouch left
Redraw(target, touches, st) ==
    IF st.active /\ target.ctx2d
    THEN RedrawAfterClear(target, touches, st.center, ClearCanvas(target, st.dirtyPlace))
    ELSE [cleared |-> <<>>, dirtyPlace |-> st.dirtyPlace]

\* the bounding box of the marks lines 263-272 draw in one call: what they leave of an
\* empty dirtyPlace (<<>> when nothing is drawn)
MarksDrawn(target, touches, st) ==
    IF st.active /\ target.ctx2d
    THEN DrawCenter(DrawTouches(<<>>, target.lineWidth, touches, 1), target.lineWidth, st.center)
    ELSE <<>>

\* what a clearCanvas call that cleared something was given: the surface's box and the
\* dirtyPlace it read (None when nothing was cleared)
ClearedOn(target, dp, cleared) ==
    IF cleared = <<>> THEN None
    ELSE [surface |-> Size(target.clientWidth, target.clientHeight), tracked |-> dp]

\* faulty variant: every touch is given the primary's pointer id
MapTouchesAllPrimary(touches) ==
    [pointerId \in DOMAIN touches |->
        TouchControlEvent(touches[pointerId].action, 0, touches[pointerId].position,
                          255, touches[pointerId].buttons)]

\* lines 275-278
MapTouches(touches) ==
    [pointerId \in DOMAIN touches |->
        TouchControlEvent(touches[pointerId].action, pointerId - 1, touches[pointerId].position,
                          255, touches[pointerId].buttons)]

\* whether the contact of pointerId 1 is down in the events returned so far, after a
\* call that returns the touches (lines 275-278 give the second one pointerId 1)
SimulatedDownAfter(down, touches) ==
    IF Len(touches) < 2 THEN down
    ELSE IF touches[2].action = "ACTION_DOWN" THEN TRUE
    ELSE IF touches[2].action = "ACTION_UP" THEN FALSE
    ELSE down

\* buildTouchEvent(e, screenInfo), e of one of the types on one of the targets; tracked:
\* simulatedDown follows the events returned
BuildTouchEventOn(types, targets, screenInfos, htmls, tracked) ==
    \E type \in types, ctrlKey \in BOOLEAN, shiftKey \in BOOLEAN,
       clientX \in Coords, clientY \in Coords, button \in MouseButtons,
       target \in targets, screenInfo \in screenInfos, html \in htmls :
        \E e \in {[clientX |-> clientX, clientY |-> clientY, type |-> type, target |-> target,
                   button |-> button, ctrlKey |-> ctrlKey, shiftKey |-> shiftKey]} :
        \E g \in {GetTouch(e, screenInfo, html,
                           [active |-> multiTouchActive, center |-> multiTouchCenter,
                            shift |-> multiTouchShift, dirtyPlace |-> dirtyPlace])} :
        \E call \in {[op |-> "buildTouchEvent", type |-> type, ctrlKey |-> ctrlKey,
                      wasActive |-> multiTouchActive]} :
            IF g = None
            THEN /\ last' = call @@ [result |-> Null, cleared |-> <<>>, clearedOn |-> None,
                                     marks |-> <<>>]
                 /\ UNCHANGED <<idToPointerMap, pointerToIdMap, multiTouchActive,
                                multiTouchCenter, multiTouchShift, dirtyPlace, heldId,
                                lastId, startPoint, simulatedDown>>
            ELSE \E r \in {Redraw(target, g.touches, g.st)} :
                     /\ multiTouchActive' = g.st.active
                     /\ multiTouchCenter' = g.st.center
                     /\ multiTouchShift' = g.st.shift
                     /\ dirtyPlace' = r.dirtyPlace
                     /\ last' = call @@ [result |-> Events(MapTouches(g.touches)),
                                         cleared |-> g.cleared \o r.cleared,
                                         clearedOn |-> ClearedOn(target, dirtyPlace,
                                                                 g.cleared \o r.cleared),
                                         marks |-> MarksDrawn(target, g.touches, g.st)]
                     /\ startPoint' = IF ~ctrlKey THEN None
                                      ELSE IF ~multiTouchActive /\ shiftKey
                                           THEN g.mapped.touch.position.point
                                           ELSE startPoint
                     /\ simulatedDown' = IF tracked
                                         THEN SimulatedDownAfter(simulatedDown, g.touches)
                                         ELSE simulatedDown
                     /\ UNCHANGED <<idToPointerMap, pointerToIdMap, heldId, lastId>>

BuildTouchEvent == BuildTouchEventOn(MouseTypes, PlainElements, ScreenInfos, Htmls, FALSE)

\* the same for a video of 2 x 2 (or none yet), the contact of pointerId 1 followed
\* through the events returned
StreamScreenInfos == {[videoSize |-> Size(2, 2)], None}
BuildTouchEventStream ==
    BuildTouchEventOn(MouseTypes, PlainElements, StreamScreenInfos, Htmls, TRUE)

\* mouse events on a canvas of 20 x 20 that shows a video of 240 x 240 (or none yet):
\* a pointer at client (1, 1) is at (12, 12) of the video, and the circles are drawn there
OverlayCanvases == {Element(Size(20, 20), 0, 0, TRUE, l) : l \in LineWidths}
OverlayScreenInfos == {[videoSize |-> Size(240, 240)], None}
BuildTouchEventOverlay ==
    BuildTouchEventOn(MouseTypes, OverlayCanvases, OverlayScreenInfos, Htmls, FALSE)

(***************************************************************************)
(* updateDirty called on its own, as drawCircle calls it, with boxes whose *)
(* corners lie on a small grid.                                            *)
(***************************************************************************)
MarkCoords == {0, 5, 10, 20}
MarkBoxes ==
    {b \in [topLeft : [x : MarkCoords, y : MarkCoords],
            bottomRight : [x : MarkCoords, y : MarkCoords]] :
        b.topLeft.x < b.bottomRight.x /\ b.topLeft.y < b.bottomRight.y}

UpdateDirtyCall ==
    \E b \in MarkBoxes :
        \E topLeft \in {Point(Num(b.topLeft.x), Num(b.topLeft.y))},
           bottomRight \in {Point(Num(b.bottomRight.x), Num(b.bottomRight.y))} :
            /\ dirtyPlace' = UpdateDirty(dirtyPlace, topLeft, bottomRight)
            /\ last' = [op |-> "updateDirty", topLeft |-> topLeft, bottomRight |-> bottomRight]
            /\ UNCHANGED <<idToPointerMap, pointerToIdMap, multiTouchActive, multiTouchCenter,
                           multiTouchShift, heldId, lastId, startPoint, simulatedDown>>

(***************************************************************************)
(* calculateCoordinates called on its own, as formatTouchEvent and         *)
(* getTouch call it.                                                       *)
(***************************************************************************)
\* the types of the table and one that is not a key of it
MapperTypes == TouchTypes \cup MouseTypes \cup {"click"}
\* the video sizes above and one whose ratio does not divide the box widths
MapperScreenInfos == ScreenInfos \cup {[videoSize |-> Size(3, 2)]}
\* the elements above and a tall one, whose margin above a video of 1 x 2 is half a pixel
MapperElements == PlainElements \cup {Element(Size(1, 3), 0, 0, FALSE, 1)}

CalculateCoordinatesCall ==
    \E type \in MapperTypes, clientX \in Coords, clientY \in Coords, button \in MouseButtons,
       target \in MapperElements, screenInfo \in MapperScreenInfos, html \in Htmls :
        \E e \in {[clientX |-> clientX, clientY |-> clientY, type |-> type, target |-> target,
                   button |-> button]} :
            /\ last' = [op |-> "calculateCoordinates", type |-> type,
                        touchX |-> TouchX(e, html), touchY |-> TouchY(e, html),
                        clientWidth |-> target.clientWidth,
                        clientHeight |-> target.clientHeight,
                        screenInfo |-> screenInfo,
                        result |-> CalculateCoordinates(e, screenInfo, html)]
            /\ UNCHANGED <<idToPointerMap, pointerToIdMap, multiTouchActive, multiTouchCenter,
                           multiTouchShift, dirtyPlace, heldId, lastId, startPoint,
                           simulatedDown>>

(***************************************************************************)
(* Specifications.                                                         *)
(*   SpecTouch         touch events of one changed contact, in any order    *)
(*   SpecAlloc         the same, last recording only whether an identifier  *)
(*                     was acquired again                                  *)
(*   SpecTouchInOrder  touch events in the order a browser sends them      *)
(*   SpecBatch         touch events of batches of changed contacts         *)
(*   SpecPointer       mouse events on elements that give no 2d context    *)
(*   SpecStream        mouse events, the simulated contact followed        *)
(*   SpecOverlay       mouse events on a canvas: the overlay is drawn      *)
(*   SpecMarks         updateDirty alone, mark after mark                  *)
(*   SpecMapper        calculateCoordinates alone                          *)
(***************************************************************************)
Next == FormatTouchEvent \/ BuildTouchEvent

Spec == Init /\ [][Next]_vars
SpecTouch == Init /\ [][FormatTouchEvent]_vars
SpecAlloc == Init /\ [][FormatTouchEventUnobserved]_vars
SpecBatch == Init /\ [][FormatTouchBatch]_vars
SpecTouchInOrder == Init /\ [][FormatTouchEventInOrder]_vars
SpecPointer == Init /\ [][BuildTouchEvent]_vars
SpecStream == Init /\ [][BuildTouchEventStream]_vars
SpecOverlay == Init /\ [][BuildTouchEventOverlay]_vars
SpecMarks == Init /\ [][UpdateDirtyCall]_vars
SpecMapper == Init /\ [][CalculateCoordinatesCall]_vars

(***************************************************************************)
(* Properties of the pointer-id allocator.                                 *)
(***************************************************************************)
IsTouchCall == last.op = "formatTouchEvent"

\* the smallest integer >= 0 not in the set ids
LowestUnused(ids) == CHOOSE n \in 0..Cardinality(ids) : n \notin ids /\ \A m \in 0..(n - 1) : m \in ids

\* C1: whenever getPointerId is called with a raw identifier that is not mapped, the
\* pointer id it returns is the smallest integer >= 0 that is not the pointer id of
\* any mapped raw identifier.
C1_FreshIdIsLowestUnused ==
    IsTouchCall =>
        \A i \in DOMAIN last.calls :
            ~last.calls[i].wasMapped =>
                last.calls[i].pointerId = LowestUnused(last.calls[i].inUse)

\* C2: idToPointerMap and pointerToIdMap are exact inverses of each other:
\* idToPointerMap[r] = p if and only if pointerToIdMap[p] = r.
C2_MapsAreInverses ==
    /\ \A r \in DOMAIN idToPointerMap :
        /\ idToPointerMap[r] \in DOMAIN pointerToIdMap
        /\ pointerToIdMap[idToPointerMap[r]] = r
    /\ \A q \in DOMAIN pointerToIdMap :
        /\ pointerToIdMap[q] \in DOMAIN idToPointerMap
        /\ idToPointerMap[pointerToIdMap[q]] = q

\* the event of the i-th contact of the last call, which emitted one
EventOfCall(i) ==
    last.result.events[Cardinality({j \in 1..i : last.calls[j].emitted})]

\* C3: every event emitted for a raw identifier r from its touchstart through its
\* touchend or touchcancel carries the same pointerId, the terminal event still
\* reports that id, and right after the terminal event r is no longer mapped and its
\* id is free for reuse: no raw identifier holds it.  (Under SpecTouchInOrder heldId[r]
\* is the id returned at r's touchstart while r is down.)
C3_StableIdThenFree ==
    [][(last'.op = "formatTouchEvent") =>
        \A i \in DOMAIN last'.calls :
            LET r == last'.calls[i].identifier IN
            heldId[r] # NoId =>
                /\ last'.calls[i].emitted => EventOfCall(i)'.pointerId = heldId[r]
                /\ last'.type \in {"touchend", "touchcancel"} =>
                    /\ r \notin DOMAIN idToPointerMap'
                    /\ \A r2 \in DOMAIN idToPointerMap' : idToPointerMap'[r2] # heldId[r]]_vars

\* the part of C3 about the ids the events carry and the release of r alone
C3_StableIdThenUnmapped ==
    [][(last'.op = "formatTouchEvent") =>
        \A i \in DOMAIN last'.calls :
            LET r == last'.calls[i].identifier IN
            heldId[r] # NoId =>
                /\ last'.calls[i].emitted => EventOfCall(i)'.pointerId = heldId[r]
                /\ last'.type \in {"touchend", "touchcancel"} =>
                    r \notin DOMAIN idToPointerMap']_vars

\* C4: acquiring (touchstart, touchmove) the same raw identifier again with no
\* touchend or touchcancel for it in between returns the same pointer id, whatever
\* calls for other identifiers happen in between: while r is held, the last call for
\* r returned the id its first acquire returned.
C4_SameIdWhileHeld ==
    \A r \in RawIds : heldId[r] # NoId => lastId[r] = heldId[r]

\* C4 happens: an identifier was acquired again while another one is held too
C4_Witness ==
    /\ IsTouchCall
    /\ last.reacquired
    /\ Cardinality({r \in RawIds : heldId[r] # NoId}) >= 2

\* C10: a changed contact whose target does not match targetElement leaves both
\* allocator maps unchanged: an event none of whose contacts matches changes neither.
C10_NoMatchNoAllocation ==
    [][(/\ last'.op = "formatTouchEvent"
        /\ \A i \in DOMAIN last'.calls : ~last'.calls[i].matched)
       => UNCHANGED <<idToPointerMap, pointerToIdMap>>]_vars

\* C18: in every reachable state distinct raw identifiers that are mapped have distinct
\* pointer ids (idToPointerMap is injective), so that two contacts that are down at
\* the same time are never reported with the same pointerId.
C18_DistinctIds ==
    \A r1, r2 \in DOMAIN idToPointerMap :
        r1 # r2 => idToPointerMap[r1] # idToPointerMap[r2]

\* C19: after getPointerId has processed a touchend or touchcancel for a raw identifier
\* r, r is not mapped, whether or not it was mapped before the call; hence the mapped
\* raw identifiers are always exactly the contacts seen with a non-terminal event and
\* not terminated since, and no mapping outlives its contact.
C19_TerminalUnmaps ==
    /\ (IsTouchCall /\ IsTerminal(last.type)) =>
        \A i \in DOMAIN last.calls : last.calls[i].identifier \notin DOMAIN idToPointerMap
    /\ DOMAIN idToPointerMap = {r \in RawIds : heldId[r] # NoId}

(***************************************************************************)
(* Properties of the multi-touch simulation.                               *)
(***************************************************************************)
IsPointerCall == last.op = "buildTouchEvent"

SimulationIsReset ==
    /\ multiTouchActive = FALSE
    /\ multiTouchCenter = None
    /\ multiTouchShift = FALSE

\* C5: a buildTouchEvent call whose event has ctrl not held returns null or exactly
\* one event, whatever the simulation state before.
C5_NoOppositeWithoutCtrl ==
    (IsPointerCall /\ ~last.ctrlKey) =>
        last.result.null \/ Len(last.result.events) = 1

\* C5 happens: one event comes back without ctrl while a simulation was active
C5_Witness ==
    /\ IsPointerCall
    /\ ~last.ctrlKey
    /\ last.wasActive
    /\ ~last.result.null
    /\ Len(last.result.events) = 1

\* C6 as stated: after every buildTouchEvent call whose event has ctrl not held,
\* whatever the call returns, the simulation state is reset.
C6_ResetWithoutCtrl ==
    (IsPointerCall /\ ~last.ctrlKey) => SimulationIsReset

\* C6 amended: after every buildTouchEvent call whose event has ctrl not held and that
\* returns events (the pointer was mapped), the simulation state is reset.
C6_ResetWithoutCtrlWhenMapped ==
    (IsPointerCall /\ ~last.ctrlKey /\ ~last.result.null) => SimulationIsReset

\* C6 happens: a mapped event without ctrl ends an active simulation
C6_Witness ==
    /\ IsPointerCall
    /\ ~last.ctrlKey
    /\ ~last.result.null
    /\ last.wasActive
    /\ SimulationIsReset

\* C7: after buildTouchEvent processes a mouseup event (one it maps), the simulation
\* state is reset, also when ctrl is held during that event.
C7_ResetOnMouseUp ==
    (IsPointerCall /\ last.type = "mouseup" /\ ~last.result.null) => SimulationIsReset

\* the position's point lies in [0, width] x [0, height] of its screenSize
InScreen(position) ==
    /\ RLe(Num(0), position.point.x) /\ RLe(position.point.x, Num(position.screenSize.width))
    /\ RLe(Num(0), position.point.y) /\ RLe(position.point.y, Num(position.screenSize.height))

\* C8: in center-anchored simulation (ctrl held, not started with shift) every mapped
\* event gives a second contact, and its point lies in [0, videoWidth] x [0, videoHeight]
\* of the screenSize of its position.
C8_CenterOppositeInScreen ==
    (IsPointerCall /\ last.ctrlKey /\ ~last.result.null /\ ~multiTouchShift) =>
        /\ Len(last.result.events) = 2
        /\ InScreen(last.result.events[2].position)

\* C9: in shift-anchored simulation the opposite point is 2*center - point, center the
\* mapped point of the event that started the simulation; the second contact is
\* emitted if and only if that point lies in [0, videoWidth] x [0, videoHeight], else
\* only the primary touch is returned.  For center (500,500) and point (600,600) in
\* 1000x1000 it is (400,400); for center (100,100) and point (900,900) there is none.
C9_ShiftOpposite ==
    /\ (IsPointerCall /\ last.ctrlKey /\ ~last.result.null /\ multiTouchShift) =>
        /\ startPoint # None
        /\ LET primary == last.result.events[1].position
               reflected == Position(
                   Point(RSub(RMul(Num(2), startPoint.x), primary.point.x),
                         RSub(RMul(Num(2), startPoint.y), primary.point.y)),
                   primary.screenSize)
           IN  IF InScreen(reflected)
               THEN /\ Len(last.result.events) = 2
                    /\ last.result.events[2].position = reflected
               ELSE Len(last.result.events) = 1
    /\ Opposite(Point(Num(500), Num(500)), TRUE, [width |-> 1000, height |-> 1000],
                Point(Num(600), Num(600)), Size(1000, 1000)) = Point(Num(400), Num(400))
    /\ Opposite(Point(Num(100), Num(100)), TRUE, [width |-> 1000, height |-> 1000],
                Point(Num(900), Num(900)), Size(1000, 1000)) = None

\* C9 happens: the pointer has moved off the center and the reflected point is emitted
C9_Witness ==
    /\ IsPointerCall /\ last.ctrlKey /\ ~last.result.null /\ multiTouchShift
    /\ last.wasActive
    /\ Len(last.result.events) = 2
    /\ last.result.events[1].position.point # startPoint

\* C9 happens the other way too: the reflected point is off the screen and left out
C9_WitnessOffScreen ==
    /\ IsPointerCall /\ last.ctrlKey /\ ~last.result.null /\ multiTouchShift
    /\ last.wasActive
    /\ Len(last.result.events) = 1

(***************************************************************************)
(* Properties of formatTouchEvent's result.                                *)
(***************************************************************************)
\* the contacts of the last call that yielded an event, in the order of changedTouches
EmittedCalls == SelectSeq(last.calls, LAMBDA c : c.emitted)

\* C11: formatTouchEvent returns null exactly when no contact of the batch yields an
\* event (no contacts, no target match, or every mapping failed) and never an empty
\* list; a contact whose mapping fails is left out while every other matching contact
\* of the batch yields its event, in the order of the changed contacts.
C11_NullIffNoEvent ==
    IsTouchCall =>
        /\ last.result.null <=> (\A i \in DOMAIN last.calls : ~last.calls[i].emitted)
        /\ ~last.result.null =>
            /\ Len(last.result.events) >= 1
            /\ Len(last.result.events) = Len(EmittedCalls)
            /\ \A k \in DOMAIN EmittedCalls :
                last.result.events[k].pointerId = EmittedCalls[k].pointerId

\* C11 happens: of two matching contacts of a batch one fails to map (it lies in the
\* margin) and the other yields its event
C11_Witness ==
    /\ IsTouchCall
    /\ ~last.result.null
    /\ Len(last.calls) = 2
    /\ \E i, j \in DOMAIN last.calls :
        /\ last.calls[i].matched /\ ~last.calls[i].emitted
        /\ last.calls[j].matched /\ last.calls[j].emitted

\* C13: every non-null result of buildTouchEvent has one or two events whose pointerId
\* is their position in the list (primary 0, simulated opposite 1), all with pressure
\* 255; the second of two events has the action, the buttons and the screenSize of the
\* first: only its point may differ.
C13_PositionalIds ==
    (IsPointerCall /\ ~last.result.null) =>
        LET events == last.result.events IN
        /\ Len(events) \in {1, 2}
        /\ \A k \in DOMAIN events : events[k].pointerId = k - 1 /\ events[k].pressure = 255
        /\ Len(events) = 2 =>
            /\ events[2].action = events[1].action
            /\ events[2].buttons = events[1].buttons
            /\ events[2].position.screenSize = events[1].position.screenSize

\* C13 happens: two events come back, at different points
C13_Witness ==
    /\ IsPointerCall /\ ~last.result.null
    /\ Len(last.result.events) = 2
    /\ last.result.events[2].position.point # last.result.events[1].position.point

\* C15: the simulation center is chosen once per simulation lifetime: while a simulation
\* is running every buildTouchEvent call with ctrl held leaves multiTouchCenter and
\* multiTouchShift as the event that started the simulation set them (and the
\* simulation running), whatever the call's shift state, pointer position, button,
\* client box and video size.  (A running simulation was started by an event with ctrl
\* held, and every event mapped since had ctrl held.)
C15_CenterChosenOnce ==
    [][(last'.op = "buildTouchEvent" /\ last'.ctrlKey /\ multiTouchActive) =>
        /\ multiTouchActive'
        /\ multiTouchCenter' = multiTouchCenter
        /\ multiTouchShift' = multiTouchShift]_vars

\* C15 happens: an event with ctrl held is mapped on a box other than the one the
\* running center-anchored simulation was started on, and the center is not the new
\* box's (the two points returned add up to the box of this event)
C15_Witness ==
    /\ IsPointerCall /\ last.ctrlKey /\ last.wasActive /\ ~last.result.null
    /\ ~multiTouchShift
    /\ Len(last.result.events) = 2
    /\ LET p == last.result.events[1].position.point
           q == last.result.events[2].position.point
       IN  multiTouchCenter # Point(RDiv(RAdd(p.x, q.x), Num(2)), RDiv(RAdd(p.y, q.y), Num(2)))

\* the last call returned an up event for the primary contact (pointerId 0)
PrimaryReleased ==
    /\ IsPointerCall /\ ~last.result.null
    /\ last.result.events[1].action = "ACTION_UP"

\* C20 as stated: once the simulated contact (pointerId 1) has been returned with action
\* down, an up event for pointerId 1 is returned no later than the call that returns
\* the up event of the primary contact: after that call the simulated contact is not
\* left down, whatever the ctrl and shift state and the pointer position.
C20_SimulatedReleasedWithPrimary ==
    PrimaryReleased => ~simulatedDown

\* the running simulation is center-anchored, or the primary's point reflected through
\* multiTouchCenter lies on the screen
OppositeOnScreen ==
    \/ ~multiTouchShift
    \/ LET primary == last.result.events[1].position IN
       InScreen(Position(Point(RSub(RMul(Num(2), multiTouchCenter.x), primary.point.x),
                               RSub(RMul(Num(2), multiTouchCenter.y), primary.point.y)),
                         primary.screenSize))

\* C20 amended: the call that returns the up event of the primary contact returns the up
\* event of the simulated contact too, so that the simulated contact is not left down,
\* provided ctrl is held for that event and, in a shift-anchored simulation, the
\* reflected point lies on the screen.
C20_SimulatedReleasedWithCtrl ==
    (PrimaryReleased /\ last.ctrlKey /\ OppositeOnScreen) => ~simulatedDown

\* C20 happens: the simulated contact had gone down and is released together with the
\* primary by a mouseup with ctrl held on a running simulation
C20_Witness ==
    /\ PrimaryReleased /\ last.ctrlKey /\ last.wasActive
    /\ Len(last.result.events) = 2
    /\ last.result.events[2].action = "ACTION_UP"
    /\ ~simulatedDown

(***************************************************************************)
(* Properties of the coordinate mapper.                                    *)
(***************************************************************************)
\* the last call is a calculateCoordinates call that got past line 78 with a video
\* whose aspect ratio is larger than the element's, compared as round(1e5 * ratio)
IsWiderVideoCall ==
    /\ last.op = "calculateCoordinates"
    /\ EVENT_ACTION_MAP(last.type) # Undefined
    /\ last.screenInfo # None
    /\ Round(Rat(100000 * last.screenInfo.videoSize.width, last.screenInfo.videoSize.height))
         > Round(Rat(100000 * last.clientWidth, last.clientHeight))

\* a mouse event at clientY on an element of 1000 x 1000 at the page's origin
EventOnBox1000(clientY) ==
    [clientX |-> 500, clientY |-> clientY, type |-> "mousemove", button |-> 0,
     target |-> Element(Size(1000, 1000), 0, 0, FALSE, 1)]

C14_WitnessRejected ==
    /\ IsWiderVideoCall
    /\ last.result = None

(***************************************************************************)
(* Properties of the overlay.                                              *)
(***************************************************************************)
\* the last call cleared a part of the overlay (a dirty place was tracked)
HasCleared == IsPointerCall /\ last.cleared # <<>>

\* C12: after every clearCanvas executed while a dirty region is tracked the tracked
\* region is empty, so that the region tracked after the redraw that follows is the
\* bounding box of only the marks drawn since that clear (none, when nothing is drawn).
C12_ClearResetsDirtyPlace ==
    HasCleared => dirtyPlace = last.marks

\* box <<topLeft, bottomRight>> a contains box b
BoxContains(a, b) ==
    /\ RLe(a[1].x, b[1].x) /\ RLe(a[1].y, b[1].y)
    /\ RLe(b[2].x, a[2].x) /\ RLe(b[2].y, a[2].y)

\* every edge of box u is the same edge of box a or of box b
EdgesFrom(u, a, b) ==
    /\ u[1].x \in {a[1].x, b[1].x} /\ u[1].y \in {a[1].y, b[1].y}
    /\ u[2].x \in {a[2].x, b[2].x} /\ u[2].y \in {a[2].y, b[2].y}

\* C16: updateDirty sets the tracked region to the new box when none is tracked, and
\* otherwise to the union box of the tracked region and the new mark (the smallest
\* box that contains both); mark after mark the tracked region only grows and
\* contains every recorded mark.  Marks (0,0)-(10,10) then (5,5)-(20,20) give
\* (0,0)-(20,20).
C16_UpdateDirtyIsUnion ==
    [][(last'.op = "updateDirty") =>
        LET mark == <<last'.topLeft, last'.bottomRight>> IN
        /\ dirtyPlace = <<>> => dirtyPlace' = mark
        /\ dirtyPlace # <<>> =>
            /\ BoxContains(dirtyPlace', dirtyPlace)
            /\ BoxContains(dirtyPlace', mark)
            /\ EdgesFrom(dirtyPlace', dirtyPlace, mark)
        /\ UpdateDirty(UpdateDirty(<<>>, Point(Num(0), Num(0)), Point(Num(10), Num(10))),
                       Point(Num(5), Num(5)), Point(Num(20), Num(20)))
             = <<Point(Num(0), Num(0)), Point(Num(20), Num(20))>>]_vars

\* C16 happens: a mark was recorded on a tracked region that reached beyond the mark:
\* the region left contains the mark and is larger than it
C16_Witness ==
    /\ last.op = "updateDirty"
    /\ BoxContains(dirtyPlace, <<last.topLeft, last.bottomRight>>)
    /\ ~BoxContains(<<last.topLeft, last.bottomRight>>, dirtyPlace)

\* C17: when a region is tracked, clearCanvas clears exactly the intersection of the
\* tracked region with the surface's bounds [0, clientWidth] x [0, clientHeight]: the
\* cleared rectangle covers all of the intersection and extends neither beyond the
\* surface bounds nor beyond the tracked region.
C17_ClearsIntersection ==
    HasCleared =>
        LET r == last.cleared[1]
            right == RAdd(r.x, r.w)
            bottom == RAdd(r.y, r.h)
            topLeft == last.clearedOn.tracked[1]
            bottomRight == last.clearedOn.tracked[2]
            width == Num(last.clearedOn.surface.width)
            height == Num(last.clearedOn.surface.height)
        IN  \* covers the intersection
            /\ RLe(r.x, RMax(topLeft.x, Num(0))) /\ RLe(RMin(bottomRight.x, width), right)
            /\ RLe(r.y, RMax(topLeft.y, Num(0))) /\ RLe(RMin(bottomRight.y, height), bottom)
            \* within the surface
            /\ RLe(Num(0), r.x) /\ RLe(right, width)
            /\ RLe(Num(0), r.y) /\ RLe(bottom, height)
            \* within the tracked region
            /\ RLe(topLeft.x, r.x) /\ RLe(right, bottomRight.x)
            /\ RLe(topLeft.y, r.y) /\ RLe(bottom, bottomRight.y)

=============================================================================
